---- MODULE Spec2Model ----
(***************************************************************************)
(* The five conversion tasks of ebook-tools (src/tasks/*/__init__.py).     *)
(* Each task's main() turns a request into an `ebook-convert` command      *)
(* line, runs it as a child process, checks that the destination exists    *)
(* and returns its path or raises.                                         *)
(*                                                                         *)
(* Python strings are TLA+ strings; TLC evaluates Len, \o and SubSeq on    *)
(* them, so paths, command tokens and messages are computed character by   *)
(* character as the code computes them.                                    *)
(***************************************************************************)
EXTENDS Integers, Sequences, FiniteSets, TLC

(***************************************************************************)
(* Python values that may be None.                                         *)
(***************************************************************************)
PyNone == [type |-> "NoneType"]

PyStr(s) == [type |-> "str", val |-> s]

PyBool(b) == [type |-> "bool", val |-> b]

\* bool(v): None, False and "" are falsy
Truthy(v) ==
    CASE v.type = "NoneType" -> FALSE
      [] v.type = "bool" -> v.val
      [] v.type = "str" -> v.val /= ""

\* str(v), as an f-string formats it
Str(v) ==
    CASE v.type = "NoneType" -> "None"
      [] v.type = "bool" -> (IF v.val THEN "True" ELSE "False")
      [] v.type = "str" -> v.val

(***************************************************************************)
(* str methods                                                             *)
(***************************************************************************)
ascii_lowercase == "abcdefghijklmnopqrstuvwxyz"

ascii_uppercase == "ABCDEFGHIJKLMNOPQRSTUVWXYZ"

CharAt(s, i) == SubSeq(s, i, i)

\* the table that maps each character of `from` to the one at its place in `to`
CharTable(from, to) ==
    [c \in {CharAt(from, i) : i \in 1..Len(from)} |->
        CharAt(to, CHOOSE i \in 1..Len(from) : CharAt(from, i) = c)]

ToUpper == CharTable(ascii_lowercase, ascii_uppercase)

ToLower == CharTable(ascii_uppercase, ascii_lowercase)

\* c mapped by the table, c itself when the table does not hold it
MapChar(c, table) == IF c \in DOMAIN table THEN table[c] ELSE c

\* s with every character mapped, computed by halves to keep the recursion shallow
RECURSIVE MapStr(_, _)
MapStr(s, table) ==
    IF s = "" THEN ""
    ELSE IF Len(s) = 1 THEN MapChar(s, table)
    ELSE MapStr(SubSeq(s, 1, Len(s) \div 2), table)
         \o MapStr(SubSeq(s, Len(s) \div 2 + 1, Len(s)), table)

\* s.upper()
Upper(s) == MapStr(s, ToUpper)

\* s.lower()
Lower(s) == MapStr(s, ToLower)

\* k in s
Contains(s, k) ==
    \E i \in 1..(Len(s) - Len(k) + 1) : SubSeq(s, i, i + Len(k) - 1) = k

\* s.endswith(k)
EndsWith(s, k) ==
    Len(k) <= Len(s) /\ SubSeq(s, Len(s) - Len(k) + 1, Len(s)) = k

\* s.rfind(c) for a single character c, 1-based; 0 when c does not occur
RFind(s, c) ==
    IF \E i \in 1..Len(s) : CharAt(s, i) = c
    THEN CHOOSE i \in 1..Len(s) :
            CharAt(s, i) = c /\ \A j \in (i + 1)..Len(s) : CharAt(s, j) /= c
    ELSE 0

\* s.replace(c, "") for a single character c
RECURSIVE Remove(_, _)
Remove(s, c) ==
    IF s = "" THEN ""
    ELSE IF Len(s) = 1 THEN (IF s = c THEN "" ELSE s)
    ELSE Remove(SubSeq(s, 1, Len(s) \div 2), c)
         \o Remove(SubSeq(s, Len(s) \div 2 + 1, Len(s)), c)

\* s.rstrip(c) for a single character c
RECURSIVE RStrip(_, _)
RStrip(s, c) ==
    IF s /= "" /\ CharAt(s, Len(s)) = c THEN RStrip(SubSeq(s, 1, Len(s) - 1), c) ELSE s

IsSpace(c) == c \in {" ", "\t", "\n"}

\* s.split(): the maximal runs of non-whitespace characters, in order
RECURSIVE SplitFrom(_, _)
SplitFrom(s, word) ==
    IF s = "" THEN (IF word = "" THEN <<>> ELSE <<word>>)
    ELSE IF IsSpace(CharAt(s, 1))
         THEN (IF word = "" THEN <<>> ELSE <<word>>) \o SplitFrom(SubSeq(s, 2, Len(s)), "")
         ELSE SplitFrom(SubSeq(s, 2, Len(s)), word \o CharAt(s, 1))

Split(s) == SplitFrom(s, "")

\* s.strip() is falsy exactly when s holds whitespace only
StripIsEmpty(s) == \A i \in 1..Len(s) : IsSpace(CharAt(s, i))

\* sep.join(parts)
RECURSIVE Join(_, _)
Join(sep, parts) ==
    IF parts = <<>> THEN ""
    ELSE IF Len(parts) = 1 THEN parts[1]
    ELSE parts[1] \o sep \o Join(sep, Tail(parts))

(***************************************************************************)
(* os.path and pathlib (POSIX flavour)                                     *)
(***************************************************************************)
\* os.path.dirname(p)
dirname(p) ==
    LET head == SubSeq(p, 1, RFind(p, "/"))
    IN  IF head /= "" /\ RStrip(head, "/") /= "" THEN RStrip(head, "/") ELSE head

\* Path(p).name: the final component, trailing slashes dropped
PathName(p) ==
    LET q == RStrip(p, "/")
    IN  SubSeq(q, RFind(q, "/") + 1, Len(q))

\* whether the final component has a dot that is neither its first nor its
\* last character (pathlib's condition for a suffix)
HasSuffix(name) == 1 < RFind(name, ".") /\ RFind(name, ".") < Len(name)

\* Path(p).suffix
PathSuffix(p) ==
    LET name == PathName(p)
    IN  IF HasSuffix(name) THEN SubSeq(name, RFind(name, "."), Len(name)) ELSE ""

\* Path(p).stem
PathStem(p) ==
    LET name == PathName(p)
    IN  IF HasSuffix(name) THEN SubSeq(name, 1, RFind(name, ".") - 1) ELSE name

\* the existence check dropped
os_path_exists_always(files, p) == TRUE

\* subprocess.run called without check=True: a non-zero exit raises nothing
called_process_error_unchecked(returncode) == FALSE

\* os.path.exists(p) on the file system `files`
os_path_exists(files, p) == p \in files

\* whether subprocess.run(..., check=True) raises CalledProcessError
called_process_error(returncode) == returncode /= 0

\* os.path.join(a, b)
path_join(a, b) ==
    IF b /= "" /\ CharAt(b, 1) = "/" THEN b
    ELSE IF a = "" \/ EndsWith(a, "/") THEN a \o b
    ELSE a \o "/" \o b

(***************************************************************************)
(* The tasks and their static tables                                       *)
(***************************************************************************)
Universal == "universal-ebook-converter"

EpubToAzw3 == "epub-to-azw3"

EpubToMobi == "epub-to-mobi"

MobiToEpub == "mobi-to-epub"

Azw3ToEpub == "azw3-to-epub"

Tasks == {Universal, EpubToAzw3, EpubToMobi, MobiToEpub, Azw3ToEpub}

\* the tasks whose failure message carries the accumulated log lines
LogTasks == {Universal, EpubToAzw3, EpubToMobi, MobiToEpub}

\* d.get(k, default) for a dict with str keys and a key that may be None
DictGet(d, k, default) ==
    IF k.type = "str" /\ k.val \in DOMAIN d THEN d[k.val] ELSE default

\* the quality_settings dict of each task
quality_settings(task) ==
    CASE task = Universal ->
            [low |-> <<>>,
             medium |-> <<"--pretty-print">>,
             high |-> <<"--pretty-print", "--linearize-tables">>,
             best |-> <<"--pretty-print", "--linearize-tables",
                        "--enable-heuristics", "--smarten-punctuation">>]
      [] task = EpubToAzw3 ->
            [low |-> <<"--mobi-file-type", "new">>,
             medium |-> <<"--mobi-file-type", "new", "--mobi-toc">>,
             high |-> <<"--mobi-file-type", "new", "--mobi-toc", "--prefer-metadata-cover">>,
             best |-> <<"--mobi-file-type", "new", "--mobi-toc", "--prefer-metadata-cover",
                        "--share-not-sync", "--personal-doc">>]
      [] task = EpubToMobi ->
            [low |-> <<"--output-profile", "kindle">>,
             medium |-> <<"--output-profile", "kindle", "--heuristics">>,
             high |-> <<"--output-profile", "kindle", "--heuristics", "--enable-heuristics">>,
             best |-> <<"--output-profile", "kindle", "--heuristics", "--enable-heuristics",
                        "--smarten-punctuation">>]
      [] task = MobiToEpub ->
            [low |-> <<"--output-profile", "generic_eink">>,
             medium |-> <<"--output-profile", "generic_eink", "--pretty-print">>,
             high |-> <<"--output-profile", "generic_eink", "--pretty-print",
                        "--linearize-tables">>,
             best |-> <<"--output-profile", "generic_eink", "--pretty-print",
                        "--linearize-tables", "--unsmarten-punctuation">>]
      [] task = Azw3ToEpub ->
            [low |-> <<"--output-profile", "generic_eink">>,
             medium |-> <<"--output-profile", "generic_eink", "--pretty-print">>,
             high |-> <<"--output-profile", "generic_eink", "--pretty-print",
                        "--linearize-tables">>,
             best |-> <<"--output-profile", "generic_eink", "--pretty-print",
                        "--linearize-tables", "--unsmarten-punctuation", "--asciiize">>]

\* every task falling back to "high"
quality_default_high(task) == "high"

\* the tier whose entry quality_settings.get(quality, ...) falls back to
quality_default(task) ==
    CASE task \in {Universal, EpubToAzw3, Azw3ToEpub} -> "high"
      [] task \in {EpubToMobi, MobiToEpub} -> "medium"

\* the quality as main() holds it after reading the request: azw3-to-epub
\* replaces a falsy value by "high", the other tasks keep what they are given
read_quality(task, params) ==
    IF task = Azw3ToEpub /\ ~Truthy(params.quality) THEN PyStr("high")
    ELSE params.quality

\* quality_settings.get(quality, quality_settings[<default>])
quality_flags(task, quality) ==
    DictGet(quality_settings(task), quality, quality_settings(task)[quality_default(task)])

\* the device_profiles dict of the two tasks that have one
device_profiles(task) ==
    CASE task = Universal ->
            [generic |-> "generic_eink", kindle |-> "kindle",
             kindle_paperwhite |-> "kindle_pw", ipad |-> "ipad",
             kobo |-> "kobo", nook |-> "nook"]
      [] task = EpubToAzw3 ->
            [kindle |-> "kindle", kindle_dx |-> "kindle_dx",
             kindle_fire |-> "kindle_fire", kindle_paperwhite |-> "kindle_paperwhite",
             kindle_oasis |-> "kindle_oasis"]

\* ["--output-profile", device_profiles.get(device, <default>)]
profile_flags(task, params) ==
    CASE task = Universal ->
            <<"--output-profile",
              DictGet(device_profiles(task), params.target_device, "generic_eink")>>
      [] task = EpubToAzw3 ->
            <<"--output-profile",
              DictGet(device_profiles(task), params.kindle_device, "kindle_paperwhite")>>
      [] OTHER -> <<>>

\* the flag each task adds under `if preserve_metadata:`
metadata_flag(task) ==
    IF task = Universal THEN "--prefer-metadata-cover" ELSE "--preserve-cover-aspect-ratio"

\* preserve_metadata read without its None default
read_preserve_metadata_no_default(task, params) == params.preserve_metadata

\* preserve_metadata as main() holds it: azw3-to-epub replaces None by True
read_preserve_metadata(task, params) ==
    IF task = Azw3ToEpub /\ params.preserve_metadata.type = "NoneType" THEN PyBool(TRUE)
    ELSE params.preserve_metadata

\* the tokens added under `if preserve_metadata:`
metadata_flags(task, params) ==
    IF Truthy(read_preserve_metadata(task, params)) THEN <<metadata_flag(task)>> ELSE <<>>

\* a flag of azw3-to-epub that is None in the request takes its default
read_flag(value, default) ==
    IF value.type = "NoneType" THEN PyBool(default) ELSE value

\* the flags each task adds for its format pair and its formatting switches
format_flags(task, params) ==
    CASE task = Universal ->
            (IF params.output_format \in {"mobi", "azw3"}
             THEN <<"--mobi-file-type", "new", "--mobi-toc">>
                  \o (IF params.output_format = "azw3"
                      THEN <<"--mobi-keep-original-images">> ELSE <<>>)
             ELSE IF params.output_format = "epub"
             THEN <<"--remove-paragraph-spacing", "--insert-blank-line">>
             ELSE IF params.output_format = "pdf"
             THEN <<"--paper-size", "a4">>
             ELSE <<>>)
      [] task = EpubToAzw3 -> <<"--enable-heuristics", "--mobi-keep-original-images">>
      [] task = EpubToMobi -> <<>>
      [] task = MobiToEpub ->
            (IF Truthy(params.fix_formatting)
             THEN <<"--fix-indents", "--remove-paragraph-spacing",
                    "--remove-paragraph-spacing-indent-size", "1.5", "--insert-blank-line">>
             ELSE <<>>)
      [] task = Azw3ToEpub ->
            (IF Truthy(read_flag(params.fix_drm_protected, FALSE))
             THEN <<"--ignore-drm-errors">> ELSE <<>>)
            \o (IF Truthy(read_flag(params.clean_formatting, TRUE))
                THEN <<"--fix-indents", "--remove-paragraph-spacing",
                       "--remove-paragraph-spacing-indent-size", "1.5",
                       "--insert-blank-line", "--html-unwrap-factor", "0.4">>
                ELSE <<>>)

\* custom_options.strip().split() when custom_options is given and not blank
custom_args(task, params) ==
    IF task = Universal /\ Truthy(params.custom_options)
       /\ ~StripIsEmpty(params.custom_options.val)
    THEN Split(params.custom_options.val)
    ELSE <<>>

\* the metadata flag added before the quality flags
build_cmd_metadata_first(task, params, output_file) ==
    LET cmd0 == <<"ebook-convert", params.input_file, output_file>>
        cmd1 == cmd0 \o profile_flags(task, params)
        cmd2 == cmd1 \o metadata_flags(task, params)
        cmd3 == cmd2 \o quality_flags(task, read_quality(task, params))
    IN  (cmd3 \o format_flags(task, params)) \o custom_args(task, params)

\* cmd as main() has built it when it reaches subprocess.run
build_cmd(task, params, output_file) ==
    LET cmd0 == <<"ebook-convert", params.input_file, output_file>>
        cmd1 == cmd0 \o profile_flags(task, params)
        cmd2 == cmd1 \o quality_flags(task, read_quality(task, params))
    IN  IF task = Universal
        THEN ((cmd2 \o format_flags(task, params)) \o metadata_flags(task, params))
             \o custom_args(task, params)
        ELSE (cmd2 \o metadata_flags(task, params)) \o format_flags(task, params)

(***************************************************************************)
(* Messages                                                                *)
(***************************************************************************)
\* the noun in each task's "Input ... file does not exist" message
input_noun(task) ==
    CASE task = Universal -> ""
      [] task \in {EpubToAzw3, EpubToMobi} -> "EPUB "
      [] task = MobiToEpub -> "MOBI "
      [] task = Azw3ToEpub -> "AZW3 "

\* the message raised when os.path.exists(input_file) is false
missing_input_msg(task, input_file) ==
    "Input " \o input_noun(task) \o "file does not exist: " \o input_file

\* Path(input_file).suffix.lower().replace(".", "")
input_format(input_file) == Remove(Lower(PathSuffix(input_file)), ".")

\* size_mb of get_file_info as an f-string prints it; the files of the model
\* are empty, so round(0 / (1024 * 1024), 2) is 0.0
size_mb_text == "0.0"

\* os.path.getsize as an f-string prints it, for the empty files of the model
size_bytes_text == "0"

\* log_messages as main() holds it when it enters the try block
initial_log(task, params, out) ==
    CASE task = Universal ->
            <<"Converting " \o params.input_file \o " ("
                \o Upper(input_format(params.input_file)) \o ") to " \o out \o " ("
                \o Upper(params.output_format) \o ")",
              "Input file size: " \o size_mb_text \o " MB",
              "Quality setting: " \o Str(params.quality),
              "Target device: " \o Str(params.target_device),
              "Preserve metadata: " \o Str(params.preserve_metadata)>>
            \o (IF Truthy(params.custom_options)
                THEN <<"Custom options: " \o Str(params.custom_options)>> ELSE <<>>)
      [] task = EpubToAzw3 ->
            <<"Converting " \o params.input_file \o " to " \o out,
              "Quality setting: " \o Str(params.quality),
              "Target device: " \o Str(params.kindle_device),
              "Preserve metadata: " \o Str(params.preserve_metadata)>>
      [] task = EpubToMobi ->
            <<"Converting " \o params.input_file \o " to " \o out,
              "Quality setting: " \o Str(params.quality),
              "Preserve metadata: " \o Str(params.preserve_metadata)>>
      [] task = MobiToEpub ->
            <<"Converting " \o params.input_file \o " to " \o out,
              "Quality setting: " \o Str(params.quality),
              "Preserve metadata: " \o Str(params.preserve_metadata),
              "Fix formatting: " \o Str(params.fix_formatting)>>
      [] task = Azw3ToEpub -> <<>>

\* repr() of a list of str whose items hold no quote and no backslash
RECURSIVE ReprItems(_)
ReprItems(items) ==
    IF items = <<>> THEN ""
    ELSE "'" \o items[1] \o "'"
         \o (IF Len(items) > 1 THEN ", " ELSE "") \o ReprItems(Tail(items))

ReprList(items) == "[" \o ReprItems(items) \o "]"

Digits == <<"1", "2", "3", "4", "5", "6", "7", "8", "9">>

\* str(n) for an exit status of one digit
IntText(n) == IF n = 0 THEN "0" ELSE Digits[n]

\* str(e) of subprocess.CalledProcessError for a positive return code
called_process_error_str(command, returncode) ==
    "Command '" \o ReprList(command) \o "' returned non-zero exit status "
    \o IntText(returncode) \o "."

\* error_msg = f"Conversion failed: {e.stderr}" if e.stderr else str(e)
base_error_msg(command, child) ==
    IF child.stderr /= "" THEN "Conversion failed: " \o child.stderr
    ELSE called_process_error_str(command, child.returncode)

DrmNote ==
    "\nNote: This file may be DRM-protected. DRM-protected files cannot be converted."

InstallNote == "\nNote: Make sure Calibre is properly installed."

SameFormatNote(fmt) ==
    "\nNote: Input and output formats are the same (" \o fmt \o "). No conversion needed."

\* the DRM test made on the message as it is, without upper()
drm_test_case_sensitive(error_msg) ==
    Contains(error_msg, "drm") \/ Contains(error_msg, "encryption")

\* the test both annotating tasks make on error_msg for the DRM note
drm_test(error_msg) ==
    LET upper == Upper(error_msg)
    IN  Contains(upper, "DRM") \/ Contains(upper, "ENCRYPTION")

\* the "not found" test made before the DRM test
annotate_install_first(task, params, error_msg) ==
    CASE task = Universal ->
            (IF Contains(Lower(error_msg), "not found") THEN error_msg \o InstallNote
             ELSE IF drm_test(error_msg) THEN error_msg \o DrmNote
             ELSE IF input_format(params.input_file) = params.output_format
             THEN error_msg \o SameFormatNote(input_format(params.input_file))
             ELSE error_msg)
      [] task = Azw3ToEpub ->
            (IF drm_test(error_msg) THEN error_msg \o DrmNote ELSE error_msg)
      [] OTHER -> error_msg

\* error_msg after the task's annotations (the `except CalledProcessError` arm)
annotate(task, params, error_msg) ==
    CASE task = Universal ->
            (IF drm_test(error_msg) THEN error_msg \o DrmNote
             ELSE IF Contains(Lower(error_msg), "not found") THEN error_msg \o InstallNote
             ELSE IF input_format(params.input_file) = params.output_format
             THEN error_msg \o SameFormatNote(input_format(params.input_file))
             ELSE error_msg)
      [] task = Azw3ToEpub ->
            (IF drm_test(error_msg) THEN error_msg \o DrmNote ELSE error_msg)
      [] OTHER -> error_msg

\* error_msg of the `except CalledProcessError` arm, annotated
process_error_msg(task, params, command, child) ==
    annotate(task, params, base_error_msg(command, child))

\* log_messages after an except arm has appended its line; azw3-to-epub keeps no log
log_after_error(task, log, line) ==
    IF task \in LogTasks THEN Append(log, line) ELSE log

\* the ValueError an except arm raises: the joined log, or the line alone in
\* azw3-to-epub (whose CalledProcessError arm raises error_msg without a prefix)
raised_error(task, log, line) ==
    [type |-> "ValueError",
     msg |-> IF task \in LogTasks THEN Join("\n", log) ELSE line]

\* the prefix each except arm puts before its text in the log line
error_prefix(task) == IF task \in LogTasks THEN "Error: " ELSE ""

OutputNotCreated == "Conversion failed: Output file was not created"

\* str() of the FileNotFoundError subprocess.run raises when the converter is not installed
SpawnFailed == "[Errno 2] No such file or directory: 'ebook-convert'"

(***************************************************************************)
(* Destination path                                                        *)
(***************************************************************************)
\* the canonical extension of the one target format of a fixed-pair task
target_extension(task) ==
    CASE task = EpubToAzw3 -> ".azw3"
      [] task = EpubToMobi -> ".mobi"
      [] task \in {MobiToEpub, Azw3ToEpub} -> ".epub"

\* the destination derived from the whole source name, extension kept
resolve_output_keep_suffix(task, params, ctx) ==
    IF task = Azw3ToEpub /\ params.output_path.type = "NoneType"
    THEN PyStr(path_join(ctx.session_dir, PathName(params.input_file) \o ".epub"))
    ELSE params.output_path

\* the destination main() holds before it calls os.path.dirname: azw3-to-epub
\* derives it from the source name when the request gives None, the other
\* tasks take the request's value as it is
resolve_output(task, params, ctx) ==
    IF task = Azw3ToEpub /\ params.output_path.type = "NoneType"
    THEN PyStr(path_join(ctx.session_dir, PathStem(params.input_file) \o ".epub"))
    ELSE params.output_path

\* the extension appended whenever the path does not end with it
fix_extension_always(output_path, output_format) ==
    IF ~EndsWith(Lower(output_path), "." \o output_format)
    THEN output_path \o "." \o output_format
    ELSE output_path

\* the universal task's "Ensure output path has correct extension"
fix_extension(output_path, output_format) ==
    IF ~EndsWith(Lower(output_path), "." \o output_format)
    THEN (IF PathSuffix(output_path) = "" THEN output_path \o "." \o output_format
          ELSE output_path)
    ELSE output_path

\* the destination token of the command
final_output(task, params, out) ==
    IF task = Universal THEN fix_extension(out, params.output_format) ELSE out

(***************************************************************************)
(* Bounds and the requests main() is called with                           *)
(***************************************************************************)
\* the child's exit status ranges over 0..MaxExitCode
MaxExitCode == 1

\* a sequence of calls is at most MaxCalls calls long
MaxCalls == 3

\* the files on disk when main() is called
SourceFiles == {"book.epub", "My Drm.azw3"}

InputFiles == SourceFiles \cup {"missing.mobi"}

Qualities ==
    {PyStr("low"), PyStr("medium"), PyStr("high"), PyStr("best"),
     PyStr("ultra"), PyStr(""), PyNone}

NullableBools == {PyBool(TRUE), PyBool(FALSE), PyNone}

OutputFormats == {"epub", "mobi", "azw3", "pdf", "txt", "html"}

UniversalDevices ==
    {PyStr("generic"), PyStr("kindle"), PyStr("kindle_paperwhite"), PyStr("ipad"),
     PyStr("kobo"), PyStr("nook"), PyStr("sony")}

KindleDevices ==
    {PyStr("kindle"), PyStr("kindle_dx"), PyStr("kindle_fire"),
     PyStr("kindle_paperwhite"), PyStr("kindle_oasis"), PyStr("kobo")}

CustomOptions ==
    {PyNone, PyStr("  "), PyStr(" --margin-top  5 "), PyStr("--prefer-metadata-cover")}

\* explicit destinations: with and without an extension, with the target's
\* extension in either case, hidden names, and a dotted directory
UniversalOutputs ==
    {PyNone, PyStr("out"), PyStr("out.tmp"), PyStr("archive.tar"), PyStr("out.pdf"),
     PyStr("OUT.PDF"), PyStr("lib/.pdf"), PyStr("lib/.epub"), PyStr("v1.2/out"),
     PyStr("lib/book.epub"), PyStr("")}

PairOutputs == {PyNone, PyStr("out.bin"), PyStr("lib/out")}

Contexts == {[session_dir |-> "/oomol/session"], [session_dir |-> "/tmp/s/"]}

\* requests of the universal task: every combination of the settings that
\* shape the command for one pair of paths, every device, and every pair of
\* paths for two target formats
UniversalRequests ==
    [input_file : {"book.epub"}, output_format : OutputFormats,
     output_path : {PyStr("lib/out")}, quality : Qualities,
     preserve_metadata : NullableBools, target_device : {PyStr("kobo")},
     custom_options : {PyNone, PyStr(" --margin-top  5 ")}]
    \cup
    [input_file : {"book.epub"}, output_format : {"azw3", "txt"},
     output_path : {PyStr("lib/out")}, quality : {PyStr("best")},
     preserve_metadata : {PyBool(TRUE)}, target_device : UniversalDevices,
     custom_options : CustomOptions]
    \cup
    [input_file : InputFiles, output_format : {"pdf", "epub"},
     output_path : UniversalOutputs, quality : {PyStr("high")},
     preserve_metadata : {PyBool(TRUE)}, target_device : {PyStr("generic")},
     custom_options : {PyStr("")}]

EpubToAzw3Requests ==
    [input_file : {"book.epub"}, output_path : {PyStr("lib/out.azw3")},
     quality : Qualities, preserve_metadata : NullableBools,
     kindle_device : {PyStr("kindle_oasis"), PyStr("kobo")}]
    \cup
    [input_file : InputFiles, output_path : PairOutputs,
     quality : {PyStr("high")}, preserve_metadata : {PyBool(TRUE)},
     kindle_device : KindleDevices]

EpubToMobiRequests ==
    [input_file : {"book.epub"}, output_path : {PyStr("lib/out.mobi")},
     quality : Qualities, preserve_metadata : NullableBools]
    \cup
    [input_file : InputFiles, output_path : PairOutputs,
     quality : {PyStr("medium")}, preserve_metadata : {PyBool(TRUE)}]

MobiToEpubRequests ==
    [input_file : {"book.epub"}, output_path : {PyStr("lib/out.epub")},
     quality : Qualities, preserve_metadata : NullableBools,
     fix_formatting : {PyBool(TRUE), PyBool(FALSE)}]
    \cup
    [input_file : InputFiles, output_path : PairOutputs,
     quality : {PyStr("medium")}, preserve_metadata : {PyBool(TRUE)},
     fix_formatting : {PyBool(TRUE)}]

Azw3ToEpubRequests ==
    [input_file : {"My Drm.azw3"}, output_path : {PyNone},
     quality : Qualities, preserve_metadata : NullableBools,
     fix_drm_protected : NullableBools, clean_formatting : NullableBools]
    \cup
    [input_file : InputFiles, output_path : PairOutputs,
     quality : {PyStr("high")}, preserve_metadata : {PyNone},
     fix_drm_protected : {PyBool(FALSE), PyBool(TRUE)}, clean_formatting : {PyBool(FALSE)}]

Requests(t) ==
    CASE t = Universal -> UniversalRequests
      [] t = EpubToAzw3 -> EpubToAzw3Requests
      [] t = EpubToMobi -> EpubToMobiRequests
      [] t = MobiToEpub -> MobiToEpubRequests
      [] t = Azw3ToEpub -> Azw3ToEpubRequests

\* the requests a sequence of calls is made of: in each task a source that
\* exists, and for the universal task also a missing source and a null
\* destination; azw3-to-epub with a derived and with an explicit destination
SeqRequests(t) ==
    CASE t = Universal ->
            [input_file : {"book.epub", "missing.mobi"}, output_format : {"pdf"},
             output_path : {PyStr("out"), PyNone}, quality : {PyStr("high")},
             preserve_metadata : {PyBool(TRUE)}, target_device : {PyStr("generic")},
             custom_options : {PyNone}]
      [] t = EpubToAzw3 ->
            [input_file : {"book.epub"}, output_path : {PyStr("lib/out.azw3")},
             quality : {PyStr("high")}, preserve_metadata : {PyBool(TRUE)},
             kindle_device : {PyStr("kindle")}]
      [] t = EpubToMobi ->
            [input_file : {"book.epub"}, output_path : {PyStr("lib/out.mobi")},
             quality : {PyStr("medium")}, preserve_metadata : {PyBool(TRUE)}]
      [] t = MobiToEpub ->
            [input_file : {"book.epub"}, output_path : {PyStr("lib/out.epub")},
             quality : {PyStr("medium")}, preserve_metadata : {PyBool(TRUE)},
             fix_formatting : {PyBool(TRUE)}]
      [] t = Azw3ToEpub ->
            [input_file : {"My Drm.azw3"}, output_path : {PyNone, PyStr("lib/out")},
             quality : {PyStr("high")}, preserve_metadata : {PyNone},
             fix_drm_protected : {PyBool(FALSE)}, clean_formatting : {PyBool(FALSE)}]

SeqContexts == {[session_dir |-> "/oomol/session"]}

\* what the child may write to its standard error before a non-zero exit
Stderrs ==
    {"", "boom", "File has DRM", "unknown encryption scheme",
     "ebook-convert: command not found", "DRM plugin not found"}

Stdouts == {"", "Output saved"}

\* the child's standard error in a sequence of calls
SeqStderrs == {"", "boom"}

(***************************************************************************)
(* State                                                                   *)
(***************************************************************************)
VARIABLES
    pc,             \* "idle", "running" (blocked in subprocess.run), "returned", "raised"
    task,           \* the task whose main() is called
    params,         \* the request
    context,        \* the OOMOL context (session_dir)
    fs,             \* the paths for which os.path.exists is true
    output_file,    \* the destination as main() holds it (None until resolved)
    cmd,            \* the command as built (<<>> until built)
    log_messages,   \* the accumulated log lines
    child,          \* the completed child process (None until it has exited)
    spawns,         \* how many child processes this call has spawned
    run_calls,      \* how many times this call has invoked subprocess.run
    returned,       \* the dict main() returned (None when it has not)
    raised,         \* the exception main() raised (None when it has not)
    cause,          \* which step failed: "none", "missing_input", "nonzero_exit",
                    \* "output_not_produced", "other"
    source_existed, \* whether input_file existed when main() was entered
    dest_at_check,  \* whether the destination existed when the child had exited
    dir_done,       \* whether this call got past os.path.dirname and os.makedirs
    dest_at_spawn,  \* whether the destination existed when subprocess.run was invoked
    calls,          \* how many calls of main() have ended before this one
    repeat          \* whether this call repeats the request of the call before it

vars ==
    <<pc, task, params, context, fs, output_file, cmd, log_messages, child, spawns,
      run_calls, returned, raised, cause, source_existed, dest_at_check, dir_done,
      dest_at_spawn, calls, repeat>>

Init ==
    /\ pc = "idle"
    /\ task = ""
    /\ params = PyNone
    /\ context = PyNone
    /\ fs \in {{}, SourceFiles}
    /\ output_file = PyNone
    /\ cmd = <<>>
    /\ log_messages = <<>>
    /\ child = PyNone
    /\ spawns = 0
    /\ returned = PyNone
    /\ raised = PyNone
    /\ cause = "none"
    /\ source_existed = FALSE
    /\ dest_at_check = FALSE
    /\ run_calls = 0
    /\ dir_done = FALSE
    /\ dest_at_spawn = FALSE
    /\ calls = 0
    /\ repeat = FALSE

\* main() ends by raising exc before any child is spawned
RaiseEarly(exc, why, out) ==
    /\ pc' = "raised"
    /\ raised' = exc
    /\ cause' = why
    /\ output_file' = out
    /\ UNCHANGED <<cmd, log_messages, spawns, run_calls, dir_done, dest_at_spawn,
                   returned>>

\* the dict main() returns
result_dict(t, out, log) ==
    IF t \in LogTasks
    THEN [type |-> "dict", output_file |-> out, conversion_log |-> Join("\n", log)]
    ELSE [type |-> "dict", output_file |-> out]

\* a call that serves the request from an existing destination
runs_converter_unless_cached(files, dest) == ~(dest \in files)

\* whether main(), having built the command, invokes subprocess.run: always;
\* neither the destination on disk nor an earlier call is looked at
runs_converter(files, dest) == TRUE

(***************************************************************************)
(* main() from its entry to subprocess.run: the existence check, the       *)
(* destination, os.makedirs, the command and the log, and the spawn.       *)
(* mkdir_ok and spawn_ok are the environment's answers to os.makedirs and  *)
(* to starting `ebook-convert`.                                            *)
(***************************************************************************)
Main(t, p, ctx, mkdir_ok, spawn_ok) ==
    /\ pc = "idle"
    /\ task' = t
    /\ params' = p
    /\ context' = ctx
    /\ source_existed' = (p.input_file \in fs)
    /\ repeat' = (calls > 0 /\ t = task /\ p = params /\ ctx = context)
    /\ UNCHANGED <<fs, child, dest_at_check, calls>>
    /\ LET out == resolve_output(t, p, ctx)
       IN  IF ~os_path_exists(fs, p.input_file)
           THEN RaiseEarly([type |-> "ValueError",
                            msg |-> missing_input_msg(t, p.input_file)],
                           "missing_input", PyNone)
           ELSE IF out.type = "NoneType"
           THEN RaiseEarly([type |-> "TypeError",
                            msg |-> "expected str, bytes or os.PathLike object, not NoneType"],
                           "other", out)
           ELSE IF dirname(out.val) /= "" /\ ~mkdir_ok
           THEN RaiseEarly([type |-> "PermissionError",
                            msg |-> "[Errno 13] Permission denied: '"
                                    \o dirname(out.val) \o "'"],
                           "other", out)
           ELSE LET dest == final_output(t, p, out.val)
                    command == build_cmd(t, p, dest)
                    log == initial_log(t, p, dest)
                IN  /\ output_file' = PyStr(dest)
                    /\ cmd' = command
                    /\ dir_done' = TRUE
                    /\ dest_at_spawn' = os_path_exists(fs, dest)
                    /\ IF ~runs_converter(fs, dest)
                       THEN /\ pc' = "returned"
                            /\ returned' = result_dict(t, dest, log)
                            /\ log_messages' = log
                            /\ UNCHANGED <<raised, cause, spawns, run_calls>>
                       ELSE IF spawn_ok
                       THEN /\ pc' = "running"
                            /\ run_calls' = run_calls + 1
                            /\ spawns' = spawns + 1
                            /\ log_messages' = log
                            /\ UNCHANGED <<returned, raised, cause>>
                       ELSE LET line == "Unexpected error: " \o SpawnFailed
                            IN  /\ pc' = "raised"
                                /\ run_calls' = run_calls + 1
                                /\ log_messages' = log_after_error(t, log, line)
                                /\ raised' = raised_error(t, log_messages', line)
                                /\ cause' = "other"
                                /\ UNCHANGED <<returned, spawns>>

\* the log line each task adds after a successful post-check
size_line(t) ==
    IF t = Universal THEN "Output file size: " \o size_mb_text \o " MB"
    ELSE "Output file size: " \o size_bytes_text \o " bytes"

(***************************************************************************)
(* The child exits and main() runs to its end: subprocess.run returns or   *)
(* raises CalledProcessError, the destination is checked, and main()       *)
(* returns or raises. The child is a black box: it exits with returncode,  *)
(* has written stdout and stderr, and leaves the destination present or    *)
(* absent. Its stderr on success and its stdout on failure are never read  *)
(* by main() and are left empty.                                           *)
(***************************************************************************)
ChildExits(returncode, stdout, stderr, present) ==
    /\ pc = "running"
    /\ returncode = 0 => stderr = ""
    /\ returncode /= 0 => stdout = ""
    /\ child' = [type |-> "CompletedProcess", returncode |-> returncode,
                 stdout |-> stdout, stderr |-> stderr]
    /\ fs' = IF present THEN fs \cup {output_file.val} ELSE fs \ {output_file.val}
    /\ dest_at_check' = present
    /\ UNCHANGED <<task, params, context, output_file, cmd, spawns, run_calls,
                   source_existed, dir_done, dest_at_spawn, calls, repeat>>
    /\ IF called_process_error(returncode)
       THEN LET line == error_prefix(task)
                        \o process_error_msg(task, params, cmd, child')
            IN  /\ pc' = "raised"
                /\ log_messages' = log_after_error(task, log_messages, line)
                /\ raised' = raised_error(task, log_messages', line)
                /\ cause' = "nonzero_exit"
                /\ UNCHANGED returned
       ELSE LET log1 == IF task \in LogTasks
                        THEN Append(log_messages, "Conversion completed successfully")
                             \o (IF stdout /= "" THEN <<"Calibre output: " \o stdout>>
                                 ELSE <<>>)
                        ELSE log_messages
            IN  IF ~os_path_exists(fs', output_file.val)
                THEN LET line == "Unexpected error: " \o OutputNotCreated
                     IN  /\ pc' = "raised"
                         /\ log_messages' = log_after_error(task, log1, line)
                         /\ raised' = raised_error(task, log_messages', line)
                         /\ cause' = "output_not_produced"
                         /\ UNCHANGED returned
                ELSE LET log2 == IF task \in LogTasks THEN Append(log1, size_line(task))
                                 ELSE log1
                     IN  /\ pc' = "returned"
                         /\ returned' = result_dict(task, output_file.val, log2)
                         /\ log_messages' = log2
                         /\ UNCHANGED <<raised, cause>>

\* a task is called with a request
Call ==
    /\ pc = "idle"
    /\ \E t \in Tasks : \E p \in Requests(t) : \E ctx \in Contexts :
         \E mkdir_ok \in BOOLEAN : \E spawn_ok \in BOOLEAN :
            Main(t, p, ctx, mkdir_ok, spawn_ok)

\* the child of the running call exits
Exit ==
    /\ pc = "running"
    /\ \E returncode \in 0..MaxExitCode : \E stdout \in Stdouts :
         \E stderr \in Stderrs : \E present \in BOOLEAN :
            ChildExits(returncode, stdout, stderr, present)

Next == Call \/ Exit

Spec == Init /\ [][Next]_vars

(***************************************************************************)
(* A sequence of calls. main() keeps nothing between calls: every name it  *)
(* assigns is a local, so the next call starts afresh and only the files   *)
(* on disk carry over. task, params and context keep the request of the    *)
(* call that ended, for `repeat` to compare the next one with.             *)
(***************************************************************************)
\* main() has returned or raised, and the caller may call again
Return ==
    /\ pc \in {"returned", "raised"}
    /\ calls + 1 < MaxCalls
    /\ calls' = calls + 1
    /\ pc' = "idle"
    /\ output_file' = PyNone
    /\ cmd' = <<>>
    /\ log_messages' = <<>>
    /\ child' = PyNone
    /\ spawns' = 0
    /\ run_calls' = 0
    /\ returned' = PyNone
    /\ raised' = PyNone
    /\ cause' = "none"
    /\ source_existed' = FALSE
    /\ dest_at_check' = FALSE
    /\ dir_done' = FALSE
    /\ dest_at_spawn' = FALSE
    /\ repeat' = FALSE
    /\ UNCHANGED <<fs, task, params, context>>

\* a task is called with one of the requests of a sequence
SeqCall ==
    /\ pc = "idle"
    /\ \E t \in Tasks : \E p \in SeqRequests(t) : \E ctx \in SeqContexts :
         \E mkdir_ok \in BOOLEAN : \E spawn_ok \in BOOLEAN :
            Main(t, p, ctx, mkdir_ok, spawn_ok)

\* the child of the running call of a sequence exits
SeqExit ==
    /\ pc = "running"
    /\ \E returncode \in 0..MaxExitCode : \E stdout \in Stdouts :
         \E stderr \in SeqStderrs : \E present \in BOOLEAN :
            ChildExits(returncode, stdout, stderr, present)

NextSeq == SeqCall \/ SeqExit \/ Return

SpecSeq == Init /\ [][NextSeq]_vars

(***************************************************************************)
(* Claims                                                                  *)
(***************************************************************************)
\* C1: in every task, when the source path does not exist as main() is
\* entered, the call ends by raising the missing-input ValueError naming the
\* path, and no child process is spawned and no command is built in that call.
C1_MissingInputBeforeSpawn ==
    (pc /= "idle" /\ ~source_existed) =>
        /\ pc = "raised"
        /\ raised.type = "ValueError"
        /\ EndsWith(raised.msg, "file does not exist: " \o params.input_file)
        /\ cause = "missing_input"
        /\ spawns = 0
        /\ cmd = <<>>
        /\ child = PyNone

\* a call on a missing source, made while other files exist, has ended
C1_Witness ==
    /\ pc = "raised"
    /\ ~source_existed
    /\ fs /= {}
    /\ task = Universal

\* C2: main() returns an output path only if the child exited with code 0 and
\* the destination existed at the post-run check; after a non-zero exit
\* (destination present or not) or a zero exit with the destination absent,
\* the call raises and returns nothing.
C2_NoPartialSuccess ==
    /\ pc = "returned" =>
        /\ child /= PyNone
        /\ child.returncode = 0
        /\ dest_at_check
        /\ returned.output_file = output_file.val
        /\ raised = PyNone
    /\ (child /= PyNone /\ ~(child.returncode = 0 /\ dest_at_check)) =>
        /\ pc = "raised"
        /\ raised /= PyNone
        /\ returned = PyNone
    /\ pc = "raised" => returned = PyNone

\* the child exited non-zero and left a destination file behind, and the call raised
C2_Witness ==
    /\ pc = "raised"
    /\ child /= PyNone
    /\ child.returncode /= 0
    /\ dest_at_check
    /\ returned = PyNone

\* a call whose child exited non-zero with "DRM" in its stderr has raised
DrmFailure ==
    /\ pc = "raised"
    /\ cause = "nonzero_exit"
    /\ Contains(child.stderr, "DRM")

\* C3 as stated: in every task, after a non-zero exit with "DRM" in stderr the
\* surfaced message contains the raw stderr and the DRM advisory note.
C3_Original ==
    DrmFailure =>
        /\ Contains(raised.msg, child.stderr)
        /\ Contains(raised.msg, DrmNote)

\* C3 as amended: after a non-zero exit with "DRM" in stderr, the surfaced
\* message of azw3-to-epub and of the universal task contains the raw stderr
\* and ends with the DRM advisory note; the message of epub-to-azw3,
\* epub-to-mobi and mobi-to-epub ends with the raw stderr, with no advisory
\* appended.
C3_DrmAdvisory ==
    DrmFailure =>
        /\ Contains(raised.msg, child.stderr)
        /\ task \in {Universal, Azw3ToEpub} =>
              EndsWith(raised.msg, "Conversion failed: " \o child.stderr \o DrmNote)
        /\ task \in {EpubToAzw3, EpubToMobi, MobiToEpub} =>
              EndsWith(raised.msg, "Error: Conversion failed: " \o child.stderr)

\* the universal task has failed on a child whose stderr names DRM, with the advisory
C3_Witness ==
    /\ DrmFailure
    /\ task = Universal
    /\ Contains(raised.msg, DrmNote)

Tiers == {"low", "medium", "high", "best"}

\* the tier whose table entry the claim expects for the request's quality
C4_ExpectedTier ==
    IF params.quality.type = "str" /\ params.quality.val \in Tiers
    THEN params.quality.val
    ELSE IF task \in {EpubToAzw3, Azw3ToEpub, Universal} THEN "high" ELSE "medium"

\* C4: for each task and every quality value, the quality segment of the
\* command (after the three base tokens and the profile flags) is the task's
\* table entry for low/medium/high/best and, for any other or null value, the
\* entry of the task's default tier (high for epub-to-azw3, azw3-to-epub and
\* the universal task, medium for epub-to-mobi and mobi-to-epub); a call with
\* an existing source and a usable destination always gets that far, whatever
\* the quality value.
C4_QualityFlags ==
    (/\ pc /= "idle"
     /\ source_existed
     /\ ~(task /= Azw3ToEpub /\ params.output_path = PyNone)
     /\ raised.type /= "PermissionError") =>
        LET entry == quality_settings(task)[C4_ExpectedTier]
            start == 3 + Len(profile_flags(task, params))
        IN  /\ Len(cmd) >= start + Len(entry)
            /\ SubSeq(cmd, start + 1, start + Len(entry)) = entry
            /\ Len(cmd) = start + Len(entry) + Len(metadata_flags(task, params))
                          + Len(format_flags(task, params)) + Len(custom_args(task, params))

\* epub-to-mobi was called with a null quality and an unknown one reached azw3-to-epub
C4_Witness ==
    /\ pc = "running"
    /\ \/ task = EpubToMobi /\ params.quality = PyNone
       \/ task = Azw3ToEpub /\ params.quality = PyStr("ultra")

\* the destination the claim expects of the universal task
C5_Expected ==
    LET p == params.output_path.val
        f == params.output_format
    IN  IF ~EndsWith(Lower(p), "." \o f) /\ PathSuffix(p) = ""
        THEN p \o "." \o f
        ELSE p

\* C5: in the universal task, for an explicit destination p and target format
\* f, the destination token of the command (cmd[3], also the path that is
\* post-checked and returned) is p.f when p does not end, case-insensitively,
\* with .f and the final component of p has no extension; otherwise it is p
\* unchanged: "out" for pdf is "out.pdf", "out.tmp" and "archive.tar" stay.
C5_DestinationExtension ==
    (task = Universal /\ cmd /= <<>>) =>
        /\ cmd[3] = C5_Expected
        /\ output_file = PyStr(C5_Expected)
        /\ pc = "returned" => returned.output_file = C5_Expected /\ C5_Expected \in fs
        /\ (params.output_path = PyStr("out") /\ params.output_format = "pdf")
              => cmd[3] = "out.pdf"
        /\ params.output_path = PyStr("out.tmp") => cmd[3] = "out.tmp"
        /\ params.output_path = PyStr("archive.tar") => cmd[3] = "archive.tar"
        /\ (params.output_path = PyStr("lib/.pdf") /\ params.output_format = "pdf")
              => cmd[3] = "lib/.pdf"

\* "out" became "out.pdf" and the call returned it
C5_Witness ==
    /\ task = Universal
    /\ pc = "returned"
    /\ params.output_path = PyStr("out")
    /\ returned.output_file = "out.pdf"

\* the destination the claim expects when the request gives none
C6_Derived ==
    path_join(context.session_dir,
              PathStem(params.input_file)
              \o (IF task = Universal THEN "." \o params.output_format
                  ELSE target_extension(task)))

\* a call on an existing source whose request gives no destination
NoDestination ==
    /\ pc /= "idle"
    /\ source_existed
    /\ params.output_path = PyNone

\* C6 as stated: in every task, a call with no destination and an existing
\* source derives <session dir>/<source stem>.<target extension> and goes on
\* with that path.
C6_Original ==
    NoDestination =>
        /\ output_file = PyStr(C6_Derived)
        /\ raised.type /= "TypeError"

\* C6 as amended: azw3-to-epub derives <session dir>/<source stem>.epub when
\* output_path is null and goes on with it (it is the directory it creates,
\* the destination token of the command and the path it returns); in the
\* other four tasks a null output_path makes the call fail with a TypeError
\* before a command is built or a process spawned.
C6_DerivedDestination ==
    NoDestination =>
        IF task = Azw3ToEpub
        THEN /\ output_file = PyStr(C6_Derived)
             /\ EndsWith(C6_Derived, "/" \o PathStem(params.input_file) \o ".epub")
             /\ raised.type \notin {"TypeError"}
             /\ raised.type = "PermissionError" \/ cmd /= <<>>
             /\ cmd /= <<>> => cmd[3] = C6_Derived
             /\ pc = "returned" => returned.output_file = C6_Derived
        ELSE /\ pc = "raised"
             /\ raised.type = "TypeError"
             /\ cmd = <<>>
             /\ spawns = 0

\* azw3-to-epub returned the path it derived under the session directory
C6_Witness ==
    /\ task = Azw3ToEpub
    /\ pc = "returned"
    /\ params.output_path = PyNone
    /\ context.session_dir = "/oomol/session"
    /\ returned.output_file = "/oomol/session/My Drm.epub"

\* the command the claim expects: the one built for preserve_metadata = True
C7_AsIfTrue ==
    build_cmd(task, [params EXCEPT !.preserve_metadata = PyBool(TRUE)], output_file.val)

\* a call whose request gives no preserve_metadata has built its command
NoPreserveMetadata ==
    /\ cmd /= <<>>
    /\ params.preserve_metadata = PyNone

\* C7 as stated: in every task a null preserve_metadata is treated as true:
\* the command is the one built for preserve_metadata = true, metadata flag
\* included.
C7_Original ==
    NoPreserveMetadata =>
        /\ cmd = C7_AsIfTrue
        /\ \E i \in 1..Len(cmd) : cmd[i] = metadata_flag(task)

\* C7 as amended: in azw3-to-epub a null preserve_metadata is treated as
\* true (the command is the one built for true and holds
\* --preserve-cover-aspect-ratio); in the other four tasks a null
\* preserve_metadata is treated as false: the call does not fail for it and
\* the command is the one built for false, without the metadata segment.
C7_PreserveMetadataDefault ==
    NoPreserveMetadata =>
        IF task = Azw3ToEpub
        THEN /\ cmd = C7_AsIfTrue
             /\ \E i \in 1..Len(cmd) : cmd[i] = "--preserve-cover-aspect-ratio"
        ELSE /\ cmd = build_cmd(task, [params EXCEPT !.preserve_metadata = PyBool(FALSE)],
                                output_file.val)
             /\ Len(cmd) = Len(C7_AsIfTrue) - 1

\* azw3-to-epub runs the converter for a request without preserve_metadata
C7_Witness ==
    /\ task = Azw3ToEpub
    /\ pc = "running"
    /\ params.preserve_metadata = PyNone
    /\ \E i \in 1..Len(cmd) : cmd[i] = "--preserve-cover-aspect-ratio"

\* the three base tokens of a built command
C8_Base == <<"ebook-convert", params.input_file, output_file.val>>

\* C8 as stated: in every task the command is the base tokens, then the
\* profile flags, the quality flags, the metadata flag, the format-specific
\* flags and last the passthrough tokens.
C8_Original ==
    cmd /= <<>> =>
        cmd = C8_Base
              \o profile_flags(task, params)
              \o quality_flags(task, read_quality(task, params))
              \o metadata_flags(task, params)
              \o format_flags(task, params)
              \o custom_args(task, params)

\* C8 as amended: the command is the base tokens, the profile flags and the
\* quality flags, then in epub-to-azw3, epub-to-mobi, mobi-to-epub and
\* azw3-to-epub the metadata flag followed by the format-specific flags, but
\* in the universal task the format-specific flags followed by the metadata
\* flag; the passthrough tokens (universal task only) are always last.
C8_CommandOrder ==
    cmd /= <<>> =>
        /\ cmd = C8_Base
                 \o profile_flags(task, params)
                 \o quality_flags(task, read_quality(task, params))
                 \o (IF task = Universal
                     THEN format_flags(task, params) \o metadata_flags(task, params)
                     ELSE metadata_flags(task, params) \o format_flags(task, params))
                 \o custom_args(task, params)
        /\ SubSeq(cmd, Len(cmd) - Len(custom_args(task, params)) + 1, Len(cmd))
              = custom_args(task, params)
        /\ (/\ task = Universal
            /\ params = [input_file |-> "book.epub", output_format |-> "azw3",
                         output_path |-> PyStr("lib/out"), quality |-> PyStr("best"),
                         preserve_metadata |-> PyBool(TRUE), target_device |-> PyStr("kobo"),
                         custom_options |-> PyStr(" --margin-top  5 ")])
              => cmd = <<"ebook-convert", "book.epub", "lib/out.azw3",
                         "--output-profile", "kobo",
                         "--pretty-print", "--linearize-tables",
                         "--enable-heuristics", "--smarten-punctuation",
                         "--mobi-file-type", "new", "--mobi-toc",
                         "--mobi-keep-original-images",
                         "--prefer-metadata-cover",
                         "--margin-top", "5">>
        /\ (/\ task = EpubToAzw3
            /\ params.quality = PyStr("low")
            /\ params.preserve_metadata = PyBool(TRUE)
            /\ params.kindle_device = PyStr("kindle_oasis"))
              => cmd = <<"ebook-convert", params.input_file, output_file.val,
                         "--output-profile", "kindle_oasis",
                         "--mobi-file-type", "new",
                         "--preserve-cover-aspect-ratio",
                         "--enable-heuristics", "--mobi-keep-original-images">>

\* the universal task runs a command with format-specific flags, the
\* metadata flag and passthrough tokens
C8_Witness ==
    /\ pc = "running"
    /\ task = Universal
    /\ format_flags(task, params) /= <<>>
    /\ metadata_flags(task, params) /= <<>>
    /\ custom_args(task, params) = <<"--margin-top", "5">>

\* the tests of the claim, made on the child's stderr
StderrDrm ==
    Contains(Upper(child.stderr), "DRM") \/ Contains(Upper(child.stderr), "ENCRYPTION")

StderrNotFound == Contains(Lower(child.stderr), "not found")

SameFormat == input_format(params.input_file) = params.output_format

\* the universal task has failed on a non-zero exit
UniversalExitFailure ==
    /\ task = Universal
    /\ pc = "raised"
    /\ cause = "nonzero_exit"

\* C9 as stated: in the universal task each of the three notes is in the
\* message whenever its own condition holds, whatever the other conditions.
C9_Original ==
    UniversalExitFailure =>
        /\ StderrDrm => Contains(raised.msg, DrmNote)
        /\ StderrNotFound => Contains(raised.msg, InstallNote)
        /\ SameFormat => Contains(raised.msg, SameFormatNote(params.output_format))

\* C9 as amended: in the universal task the three notes exclude each other
\* and are tried in order on the error text ("Conversion failed: " + stderr,
\* or the CalledProcessError text naming the command when stderr is empty):
\* the DRM note is appended whenever stderr contains DRM or ENCRYPTION; the
\* install-Calibre note whenever stderr contains "not found" and not DRM or
\* ENCRYPTION; the no-conversion-needed note whenever the formats are equal
\* and the error text contains none of the three words; the message ends
\* with the error text followed by at most that one note.
C9_Annotations ==
    UniversalExitFailure =>
        LET text == base_error_msg(cmd, child)
            text_drm == Contains(Upper(text), "DRM") \/ Contains(Upper(text), "ENCRYPTION")
            text_not_found == Contains(Lower(text), "not found")
            same == SameFormatNote(params.output_format)
        IN  /\ StderrDrm => EndsWith(raised.msg, "Error: " \o text \o DrmNote)
            /\ (StderrNotFound /\ ~StderrDrm)
                  => EndsWith(raised.msg, "Error: " \o text \o InstallNote)
            /\ (SameFormat /\ ~text_drm /\ ~text_not_found)
                  => EndsWith(raised.msg, "Error: " \o text \o same)
            /\ \/ EndsWith(raised.msg, "Error: " \o text)
               \/ EndsWith(raised.msg, "Error: " \o text \o DrmNote)
               \/ EndsWith(raised.msg, "Error: " \o text \o InstallNote)
               \/ EndsWith(raised.msg, "Error: " \o text \o same)
            /\ child.stderr /= "" =>
                  Contains(raised.msg, "Error: Conversion failed: " \o child.stderr)

\* stderr names both DRM and "not found", the formats are equal, and the
\* message carries the DRM note alone
C9_Witness ==
    /\ UniversalExitFailure
    /\ child.stderr = "DRM plugin not found"
    /\ SameFormat
    /\ EndsWith(raised.msg, "Conversion failed: DRM plugin not found" \o DrmNote)

\* C10: every failure is of one kind, and the message carries the generic
\* "Unexpected error: " prefix exactly when the failure is none of
\* missing-input, non-zero-exit and output-not-produced: a failing directory
\* creation is wrapped, the output-not-produced failure is not.
C10_Original ==
    pc = "raised" =>
        /\ cause \in {"missing_input", "nonzero_exit", "output_not_produced", "other"}
        /\ Contains(raised.msg, "Unexpected error: ") <=> cause = "other"

\* a call whose source existed and that got past the destination directory step
C11_Eligible == pc /= "idle" /\ source_existed /\ dir_done

\* C11: in a sequence of calls, every call whose source exists and whose
\* destination directory step succeeds invokes subprocess.run exactly once,
\* whether or not it repeats the request before it and whether or not the
\* destination already exists: no call has more than one child, and such a
\* call has exactly one child unless the converter could not be started, in
\* which case its single invocation raised and the call ended with the
\* wrapped error. After a non-zero exit or a missing output the call has
\* ended with that one child.
C11_SpawnsExactlyOnce ==
    /\ spawns <= run_calls
    /\ run_calls <= 1
    /\ C11_Eligible =>
          /\ run_calls = 1
          /\ spawns = 1 \/ (pc = "raised" /\ cause = "other"
                             /\ Contains(raised.msg, SpawnFailed))
    /\ cause \in {"nonzero_exit", "output_not_produced"} =>
          pc = "raised" /\ spawns = 1 /\ run_calls = 1

\* a second call repeats the request of a call that succeeded, finds the
\* destination on disk, and has spawned its own child and ended
C11_Witness ==
    /\ calls > 0
    /\ repeat
    /\ dest_at_spawn
    /\ C11_Eligible
    /\ pc = "returned"
    /\ spawns = 1

\* C12 as stated: in azw3-to-epub and the universal task, a failure message
\* carries the DRM advisory note only if the child's captured stderr contains
\* "DRM" or "ENCRYPTION" in any case; so after a non-zero exit with empty
\* stderr the message never carries it, whatever the flags and the paths.
C12_Original ==
    (/\ task \in {Universal, Azw3ToEpub}
     /\ pc = "raised"
     /\ cause = "nonzero_exit"
     /\ Contains(raised.msg, DrmNote)) => StderrDrm

====
